---- MODULE Spec2Model ----
(***************************************************************************)
(* Transport core of edgarkit (src/src/core.rs): the Edgar client with its *)
(* token-bucket rate limiter and the retry loops of Edgar::get and         *)
(* Edgar::get_bytes.                                                       *)
(*                                                                         *)
(* Text (URLs, header values, bodies) is a sequence of one-character       *)
(* strings.  An Option<T> is a sequence of length 0 (None) or 1 (Some).    *)
(* Time is counted in ticks of 1/RateLimit second, the replenish interval  *)
(* of Quota::per_second(RateLimit).                                        *)
(***************************************************************************)
EXTENDS Integers, Sequences, FiniteSets, TLC

VARIABLES pc, op, url, limiter, retries, attempts, sleeps, sleepFor, napped,
          log, last, result, tokens, window,
          samples, config, client,
          spc, total_hits, total_pages, current_page, batch, all_hits,
          requested, sresult,
          acquired, request, script, handles, via, recent, fopts, fresult

(* The cells handed out per bucket, the API call behind each logical call, *)
(* the responses a replayed transport gives, the bucket behind each client *)
(* handle, the handle each logical call was made on, and the input,        *)
(* options and result of filings()                                         *)
extraVars == <<acquired, request, script, handles, via, recent, fopts, fresult>>

(* The variables of search_all, of construction and of the backoff samples *)
searchVars == <<spc, total_hits, total_pages, current_page, batch, all_hits,
                requested, sresult>>
buildVars == <<config, client>>

vars == <<pc, op, url, limiter, retries, attempts, sleeps, sleepFor, napped,
          log, last, result, tokens, window,
          samples, config, client,
          spc, total_hits, total_pages, current_page, batch, all_hits,
          requested, sresult,
          acquired, request, script, handles, via, recent, fopts, fresult>>

---------------------------------------------------------------------------
(* Program constants *)

MAX_RETRIES == 5
INITIAL_BACKOFF_MS == 1000
PreviewChars == 200
BATCH_SIZE == 7
PAGE_SIZE == 100

(* Bounds of the model *)

NCalls == 3
RateLimit == 2
JitterSteps == 4
LongBodyLen == 201
NBuckets == 2
MaxSamples == 2
MaxPages == 16
MaxFilings == 3

Calls == 1..NCalls
Buckets == 1..NBuckets

---------------------------------------------------------------------------
(* Option *)

None == <<>>
Some(v) == <<v>>
IsSome(o) == Len(o) = 1
Unwrap(o) == o[1]

Min(a, b) == IF a <= b THEN a ELSE b

---------------------------------------------------------------------------
(* Text helpers: str::ends_with, trim_start, starts_with, to_lowercase,    *)
(* contains, chars().take(n), HeaderValue::to_str, str::parse::<u64>.      *)

EndsWith(s, suf) ==
    /\ Len(s) >= Len(suf)
    /\ SubSeq(s, Len(s) - Len(suf) + 1, Len(s)) = suf

WhiteSpace == {" ", "\n", "\t", "\r", "\f"}

RECURSIVE TrimStart(_)
TrimStart(s) ==
    IF s # <<>> /\ Head(s) \in WhiteSpace THEN TrimStart(Tail(s)) ELSE s

StartsWithChar(s, ch) == s # <<>> /\ Head(s) = ch

UpperCase == <<"A", "B", "C", "D", "E", "F", "G", "H", "I", "J", "K", "L", "M",
               "N", "O", "P", "Q", "R", "S", "T", "U", "V", "W", "X", "Y", "Z">>
LowerCase == <<"a", "b", "c", "d", "e", "f", "g", "h", "i", "j", "k", "l", "m",
               "n", "o", "p", "q", "r", "s", "t", "u", "v", "w", "x", "y", "z">>

LowerChar(ch) ==
    IF \E i \in DOMAIN UpperCase : UpperCase[i] = ch
    THEN LowerCase[CHOOSE i \in DOMAIN UpperCase : UpperCase[i] = ch]
    ELSE ch

ToLowercase(s) == [i \in 1..Len(s) |-> LowerChar(s[i])]

Contains(s, pat) ==
    \E i \in 1..(Len(s) - Len(pat) + 1) : SubSeq(s, i, i + Len(pat) - 1) = pat

CharsTake(s, n) == SubSeq(s, 1, Min(n, Len(s)))

(* A byte outside visible ASCII in a header value; to_str() rejects it. *)
OpaqueByte == "0x80"

HeaderToStr(h) ==
    IF \E i \in 1..Len(h) : h[i] = OpaqueByte THEN None ELSE Some(h)

Digits == <<"0", "1", "2", "3", "4", "5", "6", "7", "8", "9">>
IsDigit(ch) == \E i \in DOMAIN Digits : Digits[i] = ch
DigitVal(ch) == (CHOOSE i \in DOMAIN Digits : Digits[i] = ch) - 1

RECURSIVE DecimalValue(_)
DecimalValue(s) ==
    IF s = <<>> THEN 0
    ELSE 10 * DecimalValue(SubSeq(s, 1, Len(s) - 1)) + DigitVal(s[Len(s)])

(* u64::from_str: an optional "+", then one or more decimal digits.  The    *)
(* overflow error (more than 20 digits) is beyond the header values drawn. *)
ParseU64(s) ==
    LET d == IF StartsWithChar(s, "+") THEN Tail(s) ELSE s
    IN  IF d # <<>> /\ \A i \in 1..Len(d) : IsDigit(d[i])
        THEN Some(DecimalValue(d))
        ELSE None

---------------------------------------------------------------------------
(* URLs, header values and bodies the model draws from *)

JsonUrl  == <<"/", "d", ".", "j", "s", "o", "n">>
TextUrl  == <<"/", "d", ".", "t", "x", "t">>
UpperUrl == <<"/", "d", ".", "J", "S", "O", "N">>
Urls == {JsonUrl, TextUrl, UpperUrl}

DotJson == <<".", "j", "s", "o", "n">>

AppJson  == <<"a", "p", "p", "l", "i", "c", "a", "t", "i", "o", "n", "/",
              "j", "s", "o", "n">>
TextHtml == <<"t", "e", "x", "t", "/", "h", "t", "m", "l">>
HtmlCharset == <<"T", "e", "x", "t", "/", "H", "T", "M", "L", ";", " ",
                 "c", "h", "a", "r", "s", "e", "t", "=", "U", "T", "F", "-", "8">>
OpaqueHtml == TextHtml \o <<OpaqueByte>>
ContentTypes == {None, Some(AppJson), Some(TextHtml), Some(HtmlCharset),
                 Some(OpaqueHtml)}

RetryAfters == {None, Some(<<"2">>), Some(<<"s", "o", "o", "n">>)}

JsonBody   == <<"{", "a", "}">>
PaddedJson == <<" ", "\n", "[", "]">>
HtmlBody   == <<"<", "h", "t", "m", "l", ">">>
LongHtml   == [i \in 1..LongBodyLen |-> IF i = 1 THEN "<" ELSE "x"]
EmptyBody  == <<>>
Bodies == {JsonBody, PaddedJson, HtmlBody, LongHtml, EmptyBody}

FailedResponseBody ==
    <<"F", "a", "i", "l", "e", "d", " ", "t", "o", " ", "r", "e", "a", "d", " ",
      "r", "e", "s", "p", "o", "n", "s", "e", " ", "b", "o", "d", "y">>
FailedErrorBody ==
    <<"F", "a", "i", "l", "e", "d", " ", "t", "o", " ", "r", "e", "a", "d", " ",
      "e", "r", "r", "o", "r", " ", "b", "o", "d", "y">>

(* One HTTP attempt as the transport reports it.  sent = FALSE is a        *)
(* transport-level failure of send() (no status); bodyOk = FALSE is a      *)
(* failure while reading the body of a response that did arrive.           *)
Response(sent, status, ctype, retryAfter, body, bodyOk) ==
    [sent |-> sent, status |-> status, ctype |-> ctype,
     retryAfter |-> retryAfter, body |-> body, bodyOk |-> bodyOk]

TransportFailure == Response(FALSE, 0, None, None, EmptyBody, FALSE)
NoResponse == Response(FALSE, 0, None, None, EmptyBody, TRUE)

(* A body whose read fails is never seen by the code: one body stands for  *)
(* all of them.                                                            *)
SuccessResponses ==
    { Response(TRUE, s, ct, None, b, TRUE) :
        s \in {200, 206}, ct \in ContentTypes, b \in Bodies }
    \cup { Response(TRUE, s, ct, None, JsonBody, FALSE) :
        s \in {200, 206}, ct \in ContentTypes }
NotFoundResponses ==
    { Response(TRUE, 404, ct, None, HtmlBody, TRUE) : ct \in {None, Some(TextHtml)} }
RateLimitedResponses ==
    { Response(TRUE, 429, Some(TextHtml), ra, HtmlBody, TRUE) : ra \in RetryAfters }
OtherResponses ==
    { Response(TRUE, s, Some(TextHtml), None, b, TRUE) :
        s \in {403, 500}, b \in {HtmlBody, LongHtml} }
    \cup { Response(TRUE, 500, Some(AppJson), None, JsonBody, ok) : ok \in BOOLEAN }

Responses ==
    {TransportFailure} \cup SuccessResponses \cup NotFoundResponses
        \cup RateLimitedResponses \cup OtherResponses

IsSuccess(status) == 200 <= status /\ status <= 299

---------------------------------------------------------------------------
(* Result<_, EdgarError> as Edgar::get / Edgar::get_bytes return it *)

Res(kind, body, status, u, preview, ctype, cause) ==
    [kind |-> kind, body |-> body, status |-> status, url |-> u,
     preview |-> preview, ctype |-> ctype, cause |-> cause]

NoResult == Res("none", <<>>, 0, <<>>, <<>>, <<>>, "")
Ok(body) == Res("Ok", body, 0, <<>>, <<>>, <<>>, "")
RequestError(cause) == Res("RequestError", <<>>, 0, <<>>, <<>>, <<>>, cause)
NotFound == Res("NotFound", <<>>, 0, <<>>, <<>>, <<>>, "")
RateLimitExceeded == Res("RateLimitExceeded", <<>>, 0, <<>>, <<>>, <<>>, "")
UnexpectedContentType(u, got, preview) ==
    Res("UnexpectedContentType", <<>>, 0, u, preview, got, "")
(* get formats status, URL and preview into the message; get_bytes only    *)
(* the status.                                                             *)
InvalidResponse(status, u, preview) ==
    Res("InvalidResponse", <<>>, status, u, preview, <<>>, "")

(* What one pass through the loop body decides: return a result, or sleep  *)
(* for wait milliseconds and go round again.                               *)
Return(r) == [ret |-> TRUE, result |-> r, wait |-> 0]
Retry(ms) == [ret |-> FALSE, result |-> NoResult, wait |-> ms]

---------------------------------------------------------------------------
(* Edgar::calculate_backoff.  fastrand::f64() is drawn as k / JitterSteps, *)
(* k in 0..JitterSteps-1, so the jitter backoff_ms * 0.2 * (rand - 0.5) is  *)
(* backoff_ms * (2k - JitterSteps) / (10 * JitterSteps), truncated toward  *)
(* zero by the cast to i64.                                                *)

TruncDiv(a, b) == IF a >= 0 THEN a \div b ELSE -((-a) \div b)

calculate_backoffWideJitter(retry, k) ==
    LET backoff_ms == INITIAL_BACKOFF_MS * (2 ^ retry)
        jitter == TruncDiv(backoff_ms * (2 * k - JitterSteps), JitterSteps)
    IN  backoff_ms + jitter

calculate_backoffFlat(retry, k) ==
    LET backoff_ms == INITIAL_BACKOFF_MS
        jitter == TruncDiv(backoff_ms * (2 * k - JitterSteps), 10 * JitterSteps)
    IN  backoff_ms + jitter

calculate_backoff(retry, k) ==
    LET backoff_ms == INITIAL_BACKOFF_MS * (2 ^ retry)
        jitter == TruncDiv(backoff_ms * (2 * k - JitterSteps), 10 * JitterSteps)
    IN  backoff_ms + jitter

JitterDraws == 0..(JitterSteps - 1)

---------------------------------------------------------------------------
(* Edgar::get_bytes: one pass through the loop body after send() *)

GetBytesTooManyRequestsEarly(n, k) ==
    IF n >= MAX_RETRIES - 1
    THEN Return(RateLimitExceeded)
    ELSE Retry(calculate_backoff(n, k))

GetBytesTooManyRequests(n, k) ==
    IF n >= MAX_RETRIES
    THEN Return(RateLimitExceeded)
    ELSE Retry(calculate_backoff(n, k))

GetBytesSendError == Return(RequestError("send"))

GetBytes(u, n, r, k) ==
    IF ~r.sent THEN GetBytesSendError
    ELSE CASE r.status = 200 ->
                IF r.bodyOk THEN Return(Ok(r.body))
                ELSE Return(RequestError("body"))
           [] r.status = 404 -> Return(NotFound)
           [] r.status = 429 -> GetBytesTooManyRequests(n, k)
           [] OTHER -> Return(InvalidResponse(r.status, <<>>, <<>>))

---------------------------------------------------------------------------
(* Edgar::get: one pass through the loop body after send() *)

ContentTypeStr(r) ==
    IF IsSome(r.ctype) THEN HeaderToStr(Unwrap(r.ctype)) ELSE None

IsHtmlContentType(r) ==
    /\ IsSome(ContentTypeStr(r))
    /\ Contains(ToLowercase(Unwrap(ContentTypeStr(r))), TextHtml)

(* The sniff written as "does not look like HTML". *)
LooksLikeJsonNotHtml(body_text) == ~StartsWithChar(TrimStart(body_text), "<")

(* The sniff without trim_start(). *)
LooksLikeJsonNoTrim(body_text) ==
    \/ StartsWithChar(body_text, "{")
    \/ StartsWithChar(body_text, "[")

LooksLikeJson(body_text) ==
    \/ StartsWithChar(TrimStart(body_text), "{")
    \/ StartsWithChar(TrimStart(body_text), "[")

(* The check entered for every URL, not only those ending in ".json". *)
ContentTypeCheckAppliesAnyUrl(u, r) ==
    IsSuccess(r.status) /\ IsHtmlContentType(r)

ContentTypeCheckApplies(u, r) ==
    EndsWith(u, DotJson) /\ IsSuccess(r.status) /\ IsHtmlContentType(r)

(* The preview built without chars().take(200). *)
ContentTypeCheckWholeBody(u, r) ==
    LET body_text == IF r.bodyOk THEN r.body ELSE FailedResponseBody
    IN  IF LooksLikeJson(body_text)
        THEN Return(Ok(body_text))
        ELSE Return(UnexpectedContentType(u, Unwrap(ContentTypeStr(r)), body_text))

ContentTypeCheck(u, r) ==
    LET body_text == IF r.bodyOk THEN r.body ELSE FailedResponseBody
    IN  IF LooksLikeJson(body_text)
        THEN Return(Ok(body_text))
        ELSE Return(UnexpectedContentType(u, Unwrap(ContentTypeStr(r)),
                                          CharsTake(body_text, PreviewChars)))

(* The retry-after header ignored, as get_bytes does. *)
RetryAfterDurationIgnored(r, n, k) == calculate_backoff(n, k)

RetryAfterDuration(r, n, k) ==
    LET h == IF IsSome(r.retryAfter) THEN HeaderToStr(Unwrap(r.retryAfter)) ELSE None
        secs == IF IsSome(h) THEN ParseU64(Unwrap(h)) ELSE None
    IN  IF IsSome(secs) THEN Unwrap(secs) * 1000 ELSE calculate_backoff(n, k)

(* Every wait computed for retry 0: no exponential growth. *)
GetTooManyRequestsFlat(n, r, k) ==
    IF n >= MAX_RETRIES
    THEN Return(RateLimitExceeded)
    ELSE Retry(RetryAfterDuration(r, 0, k))

(* The retry test of the 429 arm written with > instead of >=. *)
GetTooManyRequestsOffByOne(n, r, k) ==
    IF n > MAX_RETRIES
    THEN Return(RateLimitExceeded)
    ELSE Retry(RetryAfterDuration(r, n, k))

GetTooManyRequestsMisreported(n, r, k) ==
    IF n >= MAX_RETRIES
    THEN Return(RequestError("send"))
    ELSE Retry(RetryAfterDuration(r, n, k))

GetTooManyRequests(n, r, k) ==
    IF n >= MAX_RETRIES
    THEN Return(RateLimitExceeded)
    ELSE Retry(RetryAfterDuration(r, n, k))

(* The error body formatted into the message without chars().take(200). *)
GetOtherStatusWholeBody(u, r) ==
    LET error_body == IF r.bodyOk THEN r.body ELSE FailedErrorBody
    IN  Return(InvalidResponse(r.status, u, error_body))

GetOtherStatus(u, r) ==
    LET error_body == IF r.bodyOk THEN r.body ELSE FailedErrorBody
    IN  Return(InvalidResponse(r.status, u, CharsTake(error_body, PreviewChars)))

(* 404 handled like 429: retried within the budget. *)
GetStatusHandlingRetry404(u, n, r, k) ==
    CASE r.status = 200 ->
            IF r.bodyOk THEN Return(Ok(r.body)) ELSE Return(RequestError("body"))
      [] r.status = 404 \/ r.status = 429 -> GetTooManyRequests(n, r, k)
      [] OTHER -> GetOtherStatus(u, r)

GetStatusHandling(u, n, r, k) ==
    CASE r.status = 200 ->
            IF r.bodyOk THEN Return(Ok(r.body)) ELSE Return(RequestError("body"))
      [] r.status = 404 -> Return(NotFound)
      [] r.status = 429 -> GetTooManyRequests(n, r, k)
      [] OTHER -> GetOtherStatus(u, r)

(* The transport error returned at once, as get_bytes does with `?`. *)
GetSendErrorNoRetry(n, k) == Return(RequestError("send"))

(* The retry test of the Err arm written with > instead of >=. *)
GetSendErrorOffByOne(n, k) ==
    IF n > MAX_RETRIES
    THEN Return(RequestError("send"))
    ELSE Retry(calculate_backoff(n, k))

GetSendError(n, k) ==
    IF n >= MAX_RETRIES
    THEN Return(RequestError("send"))
    ELSE Retry(calculate_backoff(n, k))

Get(u, n, r, k) ==
    IF ~r.sent THEN GetSendError(n, k)
    ELSE IF ContentTypeCheckApplies(u, r) THEN ContentTypeCheck(u, r)
    ELSE GetStatusHandling(u, n, r, k)

---------------------------------------------------------------------------
(* Construction: Edgar::new and Edgar::with_config.  An EdgarConfig is its *)
(* user_agent (text), rate_limit (u32) and timeout (seconds); base_urls    *)
(* play no part in construction.  buildOk is whether                       *)
(* reqwest::Client::builder()...build() succeeds on this host.             *)

(* A user agent, the empty one, and one with a line feed in it *)
ValidAgent   == <<"a", "/", "1">>
UserAgents   == {ValidAgent, <<>>, <<"a", "\n">>}

(* http::HeaderValue::from_str accepts exactly the texts all of whose     *)
(* bytes are visible ASCII or tab, the empty text among them.              *)
HeaderValueFromStrOk(text) == \A i \in 1..Len(text) : text[i] \notin {"\n", "\r"}

EdgarConfig(ua, rate, secs) == [user_agent |-> ua, rate_limit |-> rate, timeout |-> secs]

NotBuilt == [kind |-> "none", msg |-> "", user_agent |-> <<>>, timeout |-> 0, quota |-> 0]
ConfigError(msg) ==
    [kind |-> "ConfigError", msg |-> msg, user_agent |-> <<>>, timeout |-> 0, quota |-> 0]
EdgarClient(cfg) ==
    [kind |-> "Edgar", msg |-> "", user_agent |-> cfg.user_agent,
     timeout |-> cfg.timeout, quota |-> cfg.rate_limit]

(* NonZeroU32::new(config.rate_limit) *)
NonZeroU32ZeroAllowed(n) == TRUE

NonZeroU32(n) == n # 0

with_config(cfg, buildOk) ==
    IF ~HeaderValueFromStrOk(cfg.user_agent) THEN ConfigError("Invalid user agent")
    ELSE IF ~buildOk THEN ConfigError("Failed to build HTTP client")
    ELSE IF ~NonZeroU32(cfg.rate_limit)
         THEN ConfigError("Rate limit must be greater than zero")
    ELSE EdgarClient(cfg)

DefaultRateLimit == 10
DefaultTimeout == 30

new(user_agent, buildOk) ==
    with_config(EdgarConfig(user_agent, DefaultRateLimit, DefaultTimeout), buildOk)

(* The configurations the constructors are tried with *)
Configs == { EdgarConfig(ua, rate, secs) :
               ua \in UserAgents, rate \in 0..RateLimit,
               secs \in {DefaultTimeout, 2 * DefaultTimeout} }

(* The client every transport call of this model runs on *)
DefaultClient == with_config(EdgarConfig(ValidAgent, RateLimit, DefaultTimeout), TRUE)

---------------------------------------------------------------------------
(* SearchOperations::search_all.  A page of hits is the record of its page *)
(* number and the number of hits on it; a request is its page number.      *)

(* let total_pages = (total_hits + PAGE_SIZE - 1) / PAGE_SIZE *)
TotalPages(T) == (T + PAGE_SIZE - 1) \div PAGE_SIZE

(* let skip = (page - 1) * PAGE_SIZE *)
Skip(page) == (page - 1) * PAGE_SIZE

(* page_options.count = Some(PAGE_SIZE.min(total_hits - skip)) *)
PageCount(page, T) == Min(PAGE_SIZE, T - Skip(page))

Hits(page, n) == [page |-> page, n |-> n]

(* response.hits.hits of the request for a page when T hits match: as many *)
(* as the request's count, none from an offset at or past T.               *)
ServedHits(page, T) ==
    Hits(page, IF Skip(page) >= T THEN 0 ELSE PageCount(page, T))

(* The pages one round of the while loop pushes onto batch_futures: from   *)
(* current_page + 1 to end_page, stopping at the first page whose skip is  *)
(* not below total_hits.                                                   *)
BatchPagesFromCurrent(current, pages, T) ==
    LET end_page == Min(current + BATCH_SIZE, pages)
        pushed == { p \in current..end_page :
                      \A q \in current..p : Skip(q) < T }
    IN  [i \in 1..Cardinality(pushed) |-> current + i - 1]

BatchPages(current, pages, T) ==
    LET end_page == Min(current + BATCH_SIZE, pages)
        pushed == { p \in (current + 1)..end_page :
                      \A q \in (current + 1)..p : Skip(q) < T }
    IN  [i \in 1..Cardinality(pushed) |-> current + i]

(* The top of the while loop with all_hits = hits and current_page =       *)
(* current: either the next batch is pushed and awaited, or the loop ends  *)
(* and Ok(all_hits) is returned.                                           *)
LoopTop(current, pages, T, hits, reqs) ==
    LET ps == BatchPages(current, pages, T)
    IN  IF current < pages /\ ps # <<>>
        THEN [spc |-> "batch",
              batch |-> [i \in 1..Len(ps) |->
                           [page |-> ps[i], state |-> "pending", hits |-> Hits(ps[i], 0)]],
              requested |-> reqs \o ps, sresult |-> "none"]
        ELSE [spc |-> "done", batch |-> <<>>, requested |-> reqs, sresult |-> "Ok"]

(* for result in results: the hits of the replies before the first Err *)
FirstErr(b) ==
    IF \E i \in 1..Len(b) : b[i].state = "err"
    THEN CHOOSE i \in 1..Len(b) :
            /\ b[i].state = "err"
            /\ \A j \in 1..(i - 1) : b[j].state # "err"
    ELSE Len(b) + 1

Extended(hits, b) == hits \o [i \in 1..(FirstErr(b) - 1) |-> b[i].hits]

---------------------------------------------------------------------------
(* FilingOperations::filings.  A filing is its position in the SEC         *)
(* submissions payload (id) and its form; a form is a text.                *)

RECURSIVE TrimEnd(_)
TrimEnd(s) ==
    IF s # <<>> /\ s[Len(s)] \in WhiteSpace
    THEN TrimEnd(SubSeq(s, 1, Len(s) - 1)) ELSE s

(* str::trim *)
Trim(s) == TrimEnd(TrimStart(s))

(* The forms a row can carry: a form, its amendment, another form, and    *)
(* the first with trailing whitespace                                      *)
FilingForms == {<<"S">>, <<"S", "/", "A">>, <<"K">>, <<"S", " ">>}

(* What get_recent_filings returns: the rows of the payload in its order *)
RecentFilings ==
    UNION { { [i \in 1..n |-> [id |-> i, form |-> f[i]]] : f \in [1..n -> FilingForms] }
            : n \in 0..MaxFilings }

FilingOptions(form_types, offset, limit, include_amendments) ==
    [form_types |-> form_types, offset |-> offset, limit |-> limit,
     include_amendments |-> include_amendments]

OptionChoices ==
    LET counts == {None} \cup { Some(n) : n \in 0..(MaxFilings + 1) }
    IN  {None} \cup
        { Some(FilingOptions(ft, off, lim, inc)) :
            ft \in {None, Some(<<(<<"S">>)>>), Some(<<(<<"S", "/", "A">>)>>),
                    Some(<<(<<"S">>), (<<"K">>)>>)},
            off \in counts, lim \in counts, inc \in BOOLEAN }

(* expanded_types: the requested types, then "<type>/A" for each requested *)
(* type that does not already end in "/A", when include_amendments         *)
ExpandedTypes(form_types, include_amendments) ==
    LET unamended == SelectSeq(form_types, LAMBDA ft : ~EndsWith(ft, <<"/", "A">>))
    IN  IF include_amendments
        THEN form_types \o [i \in 1..Len(unamended) |-> unamended[i] \o <<"/", "A">>]
        ELSE form_types

(* all_filings.retain(|filing| expanded_types.iter().any(|ft| ft == &filing.form.trim())) *)
Retain(all, expanded_types) ==
    SelectSeq(all, LAMBDA filing :
        \E i \in 1..Len(expanded_types) : expanded_types[i] = Trim(filing.form))

(* all_filings.into_iter().skip(offset).collect() *)
SkipFirst(all, offset) == SubSeq(all, offset + 1, Len(all))

(* all_filings.truncate(limit) *)
Truncate(all, limit) == SubSeq(all, 1, Min(limit, Len(all)))

filingsLimitFirst(all, opts) ==
    IF ~IsSome(opts) THEN all
    ELSE LET o == Unwrap(opts)
             retained == IF IsSome(o.form_types)
                         THEN Retain(all, ExpandedTypes(Unwrap(o.form_types),
                                                        o.include_amendments))
                         ELSE all
             truncated == IF IsSome(o.limit) THEN Truncate(retained, Unwrap(o.limit))
                          ELSE retained
         IN  IF IsSome(o.offset) THEN SkipFirst(truncated, Unwrap(o.offset))
             ELSE truncated

filings(all, opts) ==
    IF ~IsSome(opts) THEN all
    ELSE LET o == Unwrap(opts)
             retained == IF IsSome(o.form_types)
                         THEN Retain(all, ExpandedTypes(Unwrap(o.form_types),
                                                        o.include_amendments))
                         ELSE all
             skipped == IF IsSome(o.offset) THEN SkipFirst(retained, Unwrap(o.offset))
                        ELSE retained
         IN  IF IsSome(o.limit) THEN Truncate(skipped, Unwrap(o.limit))
             ELSE skipped

---------------------------------------------------------------------------
(* Argument validation of FeedOperations::historical_xbrl_feed and         *)
(* Edgar::fetch_index, and the URLs they ask get() for.                    *)

ArgError(kind) == Res(kind, <<>>, 0, <<>>, <<>>, <<>>, "")

(* format!("{}", n) of a non-negative integer *)
RECURSIVE Decimal(_)
Decimal(n) == IF n < 10 THEN <<Digits[n + 1]>>
              ELSE Decimal(n \div 10) \o <<Digits[(n % 10) + 1]>>

(* The checks at the head of historical_xbrl_feed: the error returned, or  *)
(* None when the feed is fetched.                                          *)
HistoricalXbrlFeedCheckMonthFirst(year, month) ==
    IF month < 1 \/ month > 12 THEN Some(ArgError("InvalidMonth"))
    ELSE IF year < 2005 THEN Some(ArgError("InvalidXBRLYear"))
    ELSE None

HistoricalXbrlFeedCheck(year, month) ==
    IF year < 2005 THEN Some(ArgError("InvalidXBRLYear"))
    ELSE IF month < 1 \/ month > 12 THEN Some(ArgError("InvalidMonth"))
    ELSE None

(* ".../monthly/xbrlrss-{}-{:02}.xml" *)
FeedUrl(year, month) ==
    <<"/", "x", "-">> \o Decimal(year) \o <<"-">>
        \o (IF month < 10 THEN <<"0">> ELSE <<>>) \o Decimal(month)
        \o <<".", "x", "m", "l">>

(* The match guards of fetch_index on (year, quarter), both optional *)
FetchIndexCheck(year, quarter) ==
    IF IsSome(year) /\ Unwrap(year) < 1994 THEN Some(ArgError("InvalidYear"))
    ELSE IF IsSome(quarter) /\ (Unwrap(quarter) < 1 \/ Unwrap(quarter) > 4)
         THEN Some(ArgError("InvalidQuarter"))
    ELSE None

(* build_index_url; current_year is chrono::Local::now().year() *)
IndexJson == <<"/", "i", "n", "d", "e", "x">> \o DotJson

build_index_url(year, quarter, current_year) ==
    IF ~IsSome(year) /\ ~IsSome(quarter) THEN <<"/", "i">> \o IndexJson
    ELSE IF ~IsSome(quarter) THEN <<"/", "i", "/">> \o Decimal(Unwrap(year)) \o IndexJson
    ELSE <<"/", "i", "/">>
         \o Decimal(IF IsSome(year) THEN Unwrap(year) ELSE current_year)
         \o <<"/", "Q", "T", "R">> \o Decimal(Unwrap(quarter)) \o IndexJson

---------------------------------------------------------------------------
(* State.  Per logical call c: pc[c] is its position (idle: not called     *)
(* yet; waiting: in rate_limiter.until_ready(); inflight: in send() and    *)
(* the read of the body; sleeping: in sleep(); done: returned), op, url    *)
(* and limiter the method, its argument and the bucket of the client it    *)
(* was called on, retries the local counter, result the returned value,    *)
(* sleepFor the duration in ms handed to sleep() and napped the ticks that *)
(* have passed since (counted up to one second).                           *)
(* attempts, sleeps, log (how many attempts ended in a transport failure,  *)
(* in status 429, in any other status) and last (the latest attempt)       *)
(* record what the call has done.                                          *)
(* Per bucket b: tokens[b] the cells available now, window[b] the number   *)
(* of attempts dispatched in each of the last RateLimit ticks (1 second),  *)
(* the current tick last.                                                  *)
(* samples are the (retry, ms) pairs calculate_backoff has produced.       *)
(* Per client b: config[b] the EdgarConfig its constructor was given and   *)
(* client[b] what the constructor returned.                                *)
(* Of one search_all: spc its position (idle; first: awaiting the initial  *)
(* search; batch: awaiting join_all; done: returned), total_hits,          *)
(* total_pages, current_page and all_hits its locals, batch the futures of *)
(* batch_futures with the state of each, requested the pages asked for so  *)
(* far in the order asked, sresult what it returned.                       *)

Ops == {"get", "get_bytes"}

(* The API call a logical call was made through, and its arguments *)
ApiRequest(fn, year, period) == [fn |-> fn, year |-> year, period |-> period]
NoRequest == ApiRequest("none", None, None)

(* Client handles: one per constructed client, and one more for a clone *)
Handles == 1..(NBuckets + 1)

(* A handle is the bucket its rate_limiter points at and the handle it was *)
(* cloned from (0: it was returned by with_config).                        *)
NoHandle == [bucket |-> 0, from |-> 0]
Built(b) == [bucket |-> b, from |-> 0]

(* Arc::clone of the rate_limiter field: the same bucket *)
ArcCloneOther(b) == (b % NBuckets) + 1

ArcClone(b) == b

EmptyWindow == [i \in 1..RateLimit |-> 0]

RECURSIVE SeqSum(_)
SeqSum(s) == IF s = <<>> THEN 0 ELSE Head(s) + SeqSum(Tail(s))

Init ==
    /\ pc = [c \in Calls |-> "idle"]
    /\ op = [c \in Calls |-> "get"]
    /\ url = [c \in Calls |-> <<>>]
    /\ limiter = [c \in Calls |-> 1]
    /\ retries = [c \in Calls |-> 0]
    /\ attempts = [c \in Calls |-> 0]
    /\ sleeps = [c \in Calls |-> 0]
    /\ sleepFor = [c \in Calls |-> 0]
    /\ napped = [c \in Calls |-> 0]
    /\ log = [c \in Calls |-> [failed |-> 0, limited |-> 0, other |-> 0]]
    /\ last = [c \in Calls |-> NoResponse]
    /\ result = [c \in Calls |-> NoResult]
    /\ tokens = [b \in Buckets |-> DefaultClient.quota]
    /\ window = [b \in Buckets |-> EmptyWindow]
    /\ samples = <<>>
    /\ config = [b \in Buckets |-> EdgarConfig(ValidAgent, RateLimit, DefaultTimeout)]
    /\ client = [b \in Buckets |-> DefaultClient]
    /\ spc = "idle"
    /\ total_hits = 0
    /\ total_pages = 0
    /\ current_page = 0
    /\ batch = <<>>
    /\ all_hits = <<>>
    /\ requested = <<>>
    /\ sresult = "none"
    /\ acquired = [b \in Buckets |-> 0]
    /\ request = [c \in Calls |-> NoRequest]
    /\ script = <<>>
    /\ handles = [h \in Handles |-> IF h \in Buckets THEN Built(h) ELSE NoHandle]
    /\ via = [c \in Calls |-> 0]
    /\ recent = <<>>
    /\ fopts = None
    /\ fresult = None

(* A caller invokes get(u) or get_bytes(u): let mut retries = 0. *)
Start(c, o, u, b) ==
    /\ pc[c] = "idle"
    /\ pc' = [pc EXCEPT ![c] = "waiting"]
    /\ op' = [op EXCEPT ![c] = o]
    /\ url' = [url EXCEPT ![c] = u]
    /\ limiter' = [limiter EXCEPT ![c] = b]
    /\ retries' = [retries EXCEPT ![c] = 0]
    /\ UNCHANGED <<attempts, sleeps, sleepFor, napped, log, last, result, tokens,
                   window>>
    /\ UNCHANGED <<samples, buildVars, searchVars>>
    /\ UNCHANGED extraVars

(* rate_limiter.until_ready() can complete for call c: the call is at the  *)
(* top of its loop and the bucket of its client has a cell.  The limiter   *)
(* is an atomic state behind an Arc; no caller holds it while suspended.   *)
CanAcquireExclusive(c) ==
    /\ pc[c] = "waiting"
    /\ tokens[limiter[c]] > 0
    /\ \A d \in Calls \ {c} : pc[d] \notin {"inflight", "sleeping"}

CanAcquire(c) ==
    /\ pc[c] = "waiting"
    /\ tokens[limiter[c]] > 0

(* What until_ready() does to the limiters when it completes on bucket b:  *)
(* one cell of b is taken.                                                 *)
UntilReadySkipped(b) == [tokens |-> tokens, acquired |-> acquired]

UntilReadyGlobal(b) ==
    [tokens |-> [x \in Buckets |-> IF x = b \/ tokens[x] > 0 THEN tokens[x] - 1 ELSE 0],
     acquired |-> [acquired EXCEPT ![b] = @ + 1]]

UntilReady(b) ==
    [tokens |-> [tokens EXCEPT ![b] = @ - 1],
     acquired |-> [acquired EXCEPT ![b] = @ + 1]]

(* rate_limiter.until_ready() completes, taking one cell, and the request  *)
(* is sent in the same poll of the task.                                   *)
Acquire(c) ==
    /\ CanAcquire(c)
    /\ tokens' = UntilReady(limiter[c]).tokens
    /\ acquired' = UntilReady(limiter[c]).acquired
    /\ window' = [window EXCEPT ![limiter[c]][RateLimit] = @ + 1]
    /\ attempts' = [attempts EXCEPT ![c] = @ + 1]
    /\ pc' = [pc EXCEPT ![c] = "inflight"]
    /\ UNCHANGED <<op, url, limiter, retries, sleeps, sleepFor, napped, log, last,
                   result>>
    /\ UNCHANGED <<samples, buildVars, searchVars>>
    /\ UNCHANGED <<request, script, handles, via, recent, fopts, fresult>>

Logged(l, r) ==
    IF ~r.sent THEN [l EXCEPT !.failed = @ + 1]
    ELSE IF r.status = 429 THEN [l EXCEPT !.limited = @ + 1]
    ELSE [l EXCEPT !.other = @ + 1]

Step(c, r, k) ==
    IF op[c] = "get"
    THEN Get(url[c], retries[c], r, k)
    ELSE GetBytes(url[c], retries[c], r, k)

(* The attempt completes with r; the loop body runs to its return or to    *)
(* its sleep.  The jitter draw matters only where calculate_backoff is     *)
(* called, so the action takes one of the distinct outcomes of the draws.  *)
Receive(c, r, draws) ==
    /\ pc[c] = "inflight"
    /\ \E o \in { Step(c, r, k) : k \in draws } :
        /\ pc' = [pc EXCEPT ![c] = IF o.ret THEN "done" ELSE "sleeping"]
        /\ result' = [result EXCEPT ![c] = o.result]
        /\ sleepFor' = [sleepFor EXCEPT ![c] = o.wait]
        /\ sleeps' = [sleeps EXCEPT ![c] = IF o.ret THEN @ ELSE @ + 1]
    /\ log' = [log EXCEPT ![c] = Logged(@, r)]
    /\ last' = [last EXCEPT ![c] = r]
    /\ UNCHANGED <<op, url, limiter, retries, attempts, napped, tokens, window>>
    /\ UNCHANGED <<samples, buildVars, searchVars>>
    /\ UNCHANGED extraVars

TickMs == 1000 \div RateLimit

(* sleep() returns, not before its duration has passed (counted in ticks,  *)
(* up to one second): retries += 1; continue.                              *)
SleepElapsedAtOnce(c) == TRUE

SleepElapsedNever(c) == FALSE

SleepElapsed(c) == napped[c] >= Min(RateLimit, sleepFor[c] \div TickMs)

(* retries += 1 on the local counter of call c *)
RetriesAfterWakeShared(c) == [d \in Calls |-> retries[d] + 1]

RetriesAfterWake(c) == [retries EXCEPT ![c] = @ + 1]

Wake(c) ==
    /\ pc[c] = "sleeping"
    /\ SleepElapsed(c)
    /\ retries' = RetriesAfterWake(c)
    /\ sleepFor' = [sleepFor EXCEPT ![c] = 0]
    /\ napped' = [napped EXCEPT ![c] = 0]
    /\ pc' = [pc EXCEPT ![c] = "waiting"]
    /\ UNCHANGED <<op, url, limiter, attempts, sleeps, log, last, result, tokens, window>>
    /\ UNCHANGED <<samples, buildVars, searchVars>>
    /\ UNCHANGED extraVars

(* One replenish interval (1/RateLimit second) passes: every bucket gains  *)
(* one cell up to its burst size, and the 1-second window slides.          *)
Tick ==
    /\ tokens' = [b \in Buckets |-> Min(RateLimit, tokens[b] + 1)]
    /\ window' = [b \in Buckets |-> Tail(window[b]) \o <<0>>]
    /\ napped' = [c \in Calls |->
                    IF pc[c] = "sleeping" THEN Min(RateLimit, napped[c] + 1) ELSE 0]
    /\ UNCHANGED <<pc, op, url, limiter, retries, attempts, sleeps, sleepFor,
                   log, last, result>>
    /\ UNCHANGED <<samples, buildVars, searchVars>>
    /\ UNCHANGED extraVars

(* calculate_backoff(retry) is called and draws k *)
Sample(retry, k) ==
    /\ Len(samples) < MaxSamples
    /\ samples' = Append(samples, [retry |-> retry, k |-> k,
                                    ms |-> calculate_backoff(retry, k)])
    /\ UNCHANGED <<pc, op, url, limiter, retries, attempts, sleeps, sleepFor, napped,
                   log, last, result, tokens, window>>
    /\ UNCHANGED <<buildVars, searchVars>>
    /\ UNCHANGED extraVars

(* Edgar::with_config(cfg) returns for client b *)
WithConfig(b, cfg, buildOk) ==
    /\ client[b].kind = "none"
    /\ config' = [config EXCEPT ![b] = cfg]
    /\ client' = [client EXCEPT ![b] = with_config(cfg, buildOk)]
    /\ tokens' = [tokens EXCEPT ![b] = with_config(cfg, buildOk).quota]
    /\ UNCHANGED <<pc, op, url, limiter, retries, attempts, sleeps, sleepFor, napped,
                   log, last, result, window>>
    /\ UNCHANGED <<samples, searchVars>>
    /\ UNCHANGED extraVars

(* Edgar::new(user_agent) returns for client b *)
New(b, user_agent, buildOk) ==
    /\ client[b].kind = "none"
    /\ config' = [config EXCEPT ![b] =
                     EdgarConfig(user_agent, DefaultRateLimit, DefaultTimeout)]
    /\ client' = [client EXCEPT ![b] = new(user_agent, buildOk)]
    /\ tokens' = [tokens EXCEPT ![b] = new(user_agent, buildOk).quota]
    /\ UNCHANGED <<pc, op, url, limiter, retries, attempts, sleeps, sleepFor, napped,
                   log, last, result, window>>
    /\ UNCHANGED <<samples, searchVars>>
    /\ UNCHANGED extraVars

(* edgar.clone(): handle h2 becomes a clone of handle h *)
Clone(h, h2) ==
    /\ handles[h].bucket # 0
    /\ handles[h2].bucket = 0
    /\ handles' = [handles EXCEPT ![h2] = [bucket |-> ArcClone(handles[h].bucket),
                                            from |-> h]]
    /\ UNCHANGED <<pc, op, url, limiter, retries, attempts, sleeps, sleepFor, napped,
                   log, last, result, tokens, window>>
    /\ UNCHANGED <<samples, buildVars, searchVars>>
    /\ UNCHANGED <<acquired, request, script, via, recent, fopts, fresult>>

(* A caller invokes get(u) or get_bytes(u) on handle h *)
StartOn(c, o, u, h) ==
    /\ handles[h].bucket # 0
    /\ pc[c] = "idle"
    /\ pc' = [pc EXCEPT ![c] = "waiting"]
    /\ op' = [op EXCEPT ![c] = o]
    /\ url' = [url EXCEPT ![c] = u]
    /\ limiter' = [limiter EXCEPT ![c] = handles[h].bucket]
    /\ retries' = [retries EXCEPT ![c] = 0]
    /\ via' = [via EXCEPT ![c] = h]
    /\ UNCHANGED <<attempts, sleeps, sleepFor, napped, log, last, result, tokens,
                   window>>
    /\ UNCHANGED <<samples, buildVars, searchVars>>
    /\ UNCHANGED <<acquired, request, script, handles, recent, fopts, fresult>>

(* The attempt of call c completes with the response the replayed         *)
(* transport holds for an attempt of that number.                          *)
Replay(c, draws) ==
    /\ attempts[c] \in 1..Len(script)
    /\ Receive(c, script[attempts[c]], draws)

(* An API call that validates its arguments and then calls get(u) on the   *)
(* client of bucket 1: check is the outcome of the validation.  result[c]  *)
(* is the validation error, or later what get returns.                     *)
ApiCall(c, req, check, u) ==
    /\ pc[c] = "idle"
    /\ request' = [request EXCEPT ![c] = req]
    /\ IF IsSome(check)
       THEN /\ pc' = [pc EXCEPT ![c] = "done"]
            /\ result' = [result EXCEPT ![c] = Unwrap(check)]
            /\ UNCHANGED <<op, url, limiter, retries>>
       ELSE /\ pc' = [pc EXCEPT ![c] = "waiting"]
            /\ op' = [op EXCEPT ![c] = "get"]
            /\ url' = [url EXCEPT ![c] = u]
            /\ limiter' = [limiter EXCEPT ![c] = 1]
            /\ retries' = [retries EXCEPT ![c] = 0]
            /\ UNCHANGED result
    /\ UNCHANGED <<attempts, sleeps, sleepFor, napped, log, last, tokens, window>>
    /\ UNCHANGED <<samples, buildVars, searchVars>>
    /\ UNCHANGED <<acquired, script, handles, via, recent, fopts, fresult>>

(* historical_xbrl_feed(year, month) is called *)
HistoricalXbrlFeed(c, year, month) ==
    ApiCall(c, ApiRequest("historical_xbrl_feed", Some(year), Some(month)),
            HistoricalXbrlFeedCheck(year, month), FeedUrl(year, month))

(* fetch_index(index_type, year, quarter) is called *)
FetchIndex(c, year, quarter, current_year) ==
    ApiCall(c, ApiRequest("fetch_index", year, quarter),
            FetchIndexCheck(year, quarter),
            build_index_url(year, quarter, current_year))

(* filings(cik, opts) returns Ok, get_recent_filings having returned all *)
Filings(all, opts) ==
    /\ ~IsSome(fresult)
    /\ recent' = all
    /\ fopts' = opts
    /\ fresult' = Some(filings(all, opts))
    /\ UNCHANGED <<pc, op, url, limiter, retries, attempts, sleeps, sleepFor, napped,
                   log, last, result, tokens, window>>
    /\ UNCHANGED <<samples, buildVars, searchVars>>
    /\ UNCHANGED <<acquired, request, script, handles, via>>

(* search_all is called: the options are set to page 1 with count          *)
(* PAGE_SIZE and the initial search is sent.                               *)
SearchAll ==
    /\ spc = "idle"
    /\ spc' = "first"
    /\ requested' = <<1>>
    /\ UNCHANGED <<total_hits, total_pages, current_page, batch, all_hits, sresult>>
    /\ UNCHANGED <<pc, op, url, limiter, retries, attempts, sleeps, sleepFor, napped,
                   log, last, result, tokens, window>>
    /\ UNCHANGED <<samples, buildVars>>
    /\ UNCHANGED extraVars

(* The initial search fails: self.search(options.clone()).await? *)
FirstFails ==
    /\ spc = "first"
    /\ spc' = "done"
    /\ sresult' = "Err"
    /\ UNCHANGED <<total_hits, total_pages, current_page, batch, all_hits, requested>>
    /\ UNCHANGED <<pc, op, url, limiter, retries, attempts, sleeps, sleepFor, napped,
                   log, last, result, tokens, window>>
    /\ UNCHANGED <<samples, buildVars>>
    /\ UNCHANGED extraVars

(* The initial search answers with hits.total.value = T: its hits open     *)
(* all_hits, total_pages is computed, current_page = 1 and the loop is     *)
(* entered.                                                                *)
FirstReply(T) ==
    /\ spc = "first"
    /\ total_hits' = T
    /\ total_pages' = TotalPages(T)
    /\ current_page' = 1
    /\ all_hits' = <<ServedHits(1, T)>>
    /\ LET top == LoopTop(1, TotalPages(T), T, <<ServedHits(1, T)>>, requested)
       IN  /\ spc' = top.spc
           /\ batch' = top.batch
           /\ requested' = top.requested
           /\ sresult' = top.sresult
    /\ UNCHANGED <<pc, op, url, limiter, retries, attempts, sleeps, sleepFor, napped,
                   log, last, result, tokens, window>>
    /\ UNCHANGED <<samples, buildVars>>
    /\ UNCHANGED extraVars

(* The i-th future of the batch completes, with its page of hits or with   *)
(* an error.                                                               *)
PageReply(i, ok) ==
    /\ spc = "batch"
    /\ i \in 1..Len(batch)
    /\ batch[i].state = "pending"
    /\ batch' = [batch EXCEPT ![i] =
                    [page |-> batch[i].page,
                     state |-> IF ok THEN "ok" ELSE "err",
                     hits |-> IF ok THEN ServedHits(batch[i].page, total_hits)
                              ELSE Hits(batch[i].page, 0)]]
    /\ UNCHANGED <<spc, total_hits, total_pages, current_page, all_hits,
                   requested, sresult>>
    /\ UNCHANGED <<pc, op, url, limiter, retries, attempts, sleeps, sleepFor, napped,
                   log, last, result, tokens, window>>
    /\ UNCHANGED <<samples, buildVars>>
    /\ UNCHANGED extraVars

(* join_all(batch_futures) returns: the results are taken in order, the    *)
(* first Err is returned; otherwise current_page += BATCH_SIZE and the     *)
(* loop goes round.                                                        *)
JoinAll ==
    /\ spc = "batch"
    /\ \A i \in 1..Len(batch) : batch[i].state # "pending"
    /\ all_hits' = Extended(all_hits, batch)
    /\ UNCHANGED <<total_hits, total_pages>>
    /\ IF FirstErr(batch) <= Len(batch)
       THEN /\ spc' = "done"
            /\ sresult' = "Err"
            /\ batch' = <<>>
            /\ UNCHANGED <<current_page, requested>>
       ELSE LET top == LoopTop(current_page + BATCH_SIZE, total_pages, total_hits,
                               Extended(all_hits, batch), requested)
            IN  /\ current_page' = current_page + BATCH_SIZE
                /\ spc' = top.spc
                /\ batch' = top.batch
                /\ requested' = top.requested
                /\ sresult' = top.sresult
    /\ UNCHANGED <<pc, op, url, limiter, retries, attempts, sleeps, sleepFor, napped,
                   log, last, result, tokens, window>>
    /\ UNCHANGED <<samples, buildVars>>
    /\ UNCHANGED extraVars

(* One logical call on one client, every response the transport can give. *)
Next ==
    \/ \E o \in Ops, u \in Urls : Start(1, o, u, 1)
    \/ Acquire(1)
    \/ \E r \in Responses : Receive(1, r, JitterDraws)
    \/ Wake(1)
    \/ Tick

Spec == Init /\ [][Next]_vars

(* Concurrent logical calls on one client: every call draws on bucket 1.   *)
(* Odd calls are get, even calls get_bytes.  The transport answers 200 or  *)
(* 404, and to the calls of RetryingCalls also 429 without Retry-After;    *)
(* the jitter draw is the middle one.                                      *)
OpOf(c) == IF c % 2 = 1 THEN "get" ELSE "get_bytes"

RetryingCalls == {1, 2}

ConcResponses(c) ==
    { Response(TRUE, 200, Some(AppJson), None, JsonBody, TRUE),
      Response(TRUE, 404, None, None, HtmlBody, TRUE) }
    \cup IF c \in RetryingCalls
         THEN { Response(TRUE, 429, Some(TextHtml), None, HtmlBody, TRUE) }
         ELSE {}

ConcDraws == {JitterSteps \div 2}

NextConc ==
    \/ \E c \in Calls : Start(c, OpOf(c), TextUrl, 1)
    \/ \E c \in Calls : Acquire(c)
    \/ \E c \in Calls : \E r \in ConcResponses(c) : Receive(c, r, ConcDraws)
    \/ \E c \in Calls : Wake(c)
    \/ Tick

SpecConc == Init /\ [][NextConc]_vars

(* One call under the scheduling the runtime gives: a cell that is    *)
(* available is eventually taken, an attempt in flight eventually          *)
(* completes, a sleep whose time has passed eventually returns, and time   *)
(* passes.                                                                 *)
(* The transport gives one response of each kind the loops tell apart.     *)
LiveResponses ==
    { TransportFailure,
      Response(TRUE, 200, Some(AppJson), None, JsonBody, TRUE),
      Response(TRUE, 200, Some(TextHtml), None, HtmlBody, TRUE),
      Response(TRUE, 404, None, None, HtmlBody, TRUE),
      Response(TRUE, 429, Some(TextHtml), None, HtmlBody, TRUE),
      Response(TRUE, 429, Some(TextHtml), Some(<<"2">>), HtmlBody, TRUE),
      Response(TRUE, 500, Some(TextHtml), None, HtmlBody, TRUE) }

NextLive ==
    \/ \E o \in Ops, u \in {JsonUrl, TextUrl} : Start(1, o, u, 1)
    \/ Acquire(1)
    \/ \E r \in LiveResponses : Receive(1, r, ConcDraws)
    \/ Wake(1)
    \/ Tick

Fairness ==
    /\ WF_vars(Acquire(1))
    /\ WF_vars(\E r \in LiveResponses : Receive(1, r, ConcDraws))
    /\ WF_vars(Wake(1))
    /\ WF_vars(Tick)

SpecLive == Init /\ [][NextLive]_vars /\ Fairness

(* One get call against a transport that answers 429 without Retry-After  *)
(* some number of times and then 200 with a body.                          *)
RecoverResponses ==
    { Response(TRUE, 429, Some(TextHtml), None, HtmlBody, TRUE) }
    \cup { Response(TRUE, 200, Some(AppJson), None, b, TRUE) : b \in Bodies }

NextRecover ==
    \/ \E u \in Urls : Start(1, "get", u, 1)
    \/ Acquire(1)
    \/ \E r \in RecoverResponses : Receive(1, r, JitterDraws)
    \/ Wake(1)
    \/ Tick

SpecRecover == Init /\ [][NextRecover]_vars

(* A response with the given status, as a transport under test gives it *)
Scripted(status) == Response(TRUE, status, Some(TextHtml), None, HtmlBody, TRUE)

(* Two clients built by separate with_config calls (handles 1..NBuckets)   *)
(* and a clone of either; calls are made on any handle and answered 200 or *)
(* 404.                                                                    *)
NextClone ==
    \/ \E h \in Handles, h2 \in Handles : Clone(h, h2)
    \/ \E c \in Calls, h \in Handles : StartOn(c, OpOf(c), TextUrl, h)
    \/ \E c \in Calls : Acquire(c)
    \/ \E c \in Calls : \E r \in {Scripted(200), Scripted(404)} : Receive(c, r, ConcDraws)
    \/ Tick

SpecClone == Init /\ [][NextClone]_vars

(* get (call 1) and get_bytes (call 2) of the same URL on one client,      *)
(* against a transport that answers the n-th attempt of either call with   *)
(* script[n]: some 429s without Retry-After, then a 200, a 404, a 500 or   *)
(* another 429, then a padding of 429s or of 200s; one attempt more than   *)
(* the loops can make.  The jitter draw is the middle one.                 *)
Scripts ==
    { [i \in 1..(MAX_RETRIES + 2) |->
         IF i <= k THEN Scripted(429) ELSE IF i = k + 1 THEN Scripted(t) ELSE Scripted(pad)] :
        k \in 0..(MAX_RETRIES + 1), t \in {200, 404, 500, 429}, pad \in {429, 200} }

InitEquiv ==
    /\ pc = [c \in Calls |-> "idle"]
    /\ op = [c \in Calls |-> "get"]
    /\ url = [c \in Calls |-> <<>>]
    /\ limiter = [c \in Calls |-> 1]
    /\ retries = [c \in Calls |-> 0]
    /\ attempts = [c \in Calls |-> 0]
    /\ sleeps = [c \in Calls |-> 0]
    /\ sleepFor = [c \in Calls |-> 0]
    /\ napped = [c \in Calls |-> 0]
    /\ log = [c \in Calls |-> [failed |-> 0, limited |-> 0, other |-> 0]]
    /\ last = [c \in Calls |-> NoResponse]
    /\ result = [c \in Calls |-> NoResult]
    /\ tokens = [b \in Buckets |-> DefaultClient.quota]
    /\ window = [b \in Buckets |-> EmptyWindow]
    /\ samples = <<>>
    /\ config = [b \in Buckets |-> EdgarConfig(ValidAgent, RateLimit, DefaultTimeout)]
    /\ client = [b \in Buckets |-> DefaultClient]
    /\ spc = "idle"
    /\ total_hits = 0
    /\ total_pages = 0
    /\ current_page = 0
    /\ batch = <<>>
    /\ all_hits = <<>>
    /\ requested = <<>>
    /\ sresult = "none"
    /\ acquired = [b \in Buckets |-> 0]
    /\ request = [c \in Calls |-> NoRequest]
    /\ script \in Scripts
    /\ handles = [h \in Handles |-> IF h \in Buckets THEN Built(h) ELSE NoHandle]
    /\ via = [c \in Calls |-> 0]
    /\ recent = <<>>
    /\ fopts = None
    /\ fresult = None

NextEquiv ==
    \/ \E c \in {1, 2} : Start(c, OpOf(c), TextUrl, 1)
    \/ \E c \in {1, 2} : Acquire(c)
    \/ \E c \in {1, 2} : Replay(c, ConcDraws)
    \/ \E c \in {1, 2} : Wake(c)
    \/ Tick

SpecEquiv == InitEquiv /\ [][NextEquiv]_vars

(* The validating calls on one client, with arguments on both sides of    *)
(* each check; the transport answers 429 or 200.                           *)
NextFeeds ==
    \/ \E year \in {2004, 2005}, month \in {0, 1, 12, 13} :
          HistoricalXbrlFeed(1, year, month)
    \/ \E year \in {None, Some(1993), Some(1994)},
          quarter \in {None, Some(0), Some(1), Some(4), Some(5)} :
          FetchIndex(1, year, quarter, 2026)
    \/ Acquire(1)
    \/ \E r \in RecoverResponses : Receive(1, r, JitterDraws)
    \/ Wake(1)
    \/ Tick

SpecFeeds == Init /\ [][NextFeeds]_vars

(* filings() on its own: any payload of at most MaxFilings rows, any       *)
(* options.                                                                *)
NextFilings ==
    /\ ~IsSome(fresult)
    /\ \E all \in RecentFilings, opts \in OptionChoices : Filings(all, opts)

SpecFilings == Init /\ [][NextFilings]_vars

(* calculate_backoff on its own: every retry index the loops reach and one *)
(* past them, every jitter draw.                                           *)
NextBackoff == \E retry \in 0..MAX_RETRIES, k \in JitterDraws : Sample(retry, k)

SpecBackoff == Init /\ [][NextBackoff]_vars

(* Construction on its own: no client has been made yet. *)
InitConfig ==
    /\ pc = [c \in Calls |-> "idle"]
    /\ op = [c \in Calls |-> "get"]
    /\ url = [c \in Calls |-> <<>>]
    /\ limiter = [c \in Calls |-> 1]
    /\ retries = [c \in Calls |-> 0]
    /\ attempts = [c \in Calls |-> 0]
    /\ sleeps = [c \in Calls |-> 0]
    /\ sleepFor = [c \in Calls |-> 0]
    /\ napped = [c \in Calls |-> 0]
    /\ log = [c \in Calls |-> [failed |-> 0, limited |-> 0, other |-> 0]]
    /\ last = [c \in Calls |-> NoResponse]
    /\ result = [c \in Calls |-> NoResult]
    /\ tokens = [b \in Buckets |-> 0]
    /\ window = [b \in Buckets |-> EmptyWindow]
    /\ samples = <<>>
    /\ config = [b \in Buckets |-> EdgarConfig(<<>>, 0, 0)]
    /\ client = [b \in Buckets |-> NotBuilt]
    /\ spc = "idle"
    /\ total_hits = 0
    /\ total_pages = 0
    /\ current_page = 0
    /\ batch = <<>>
    /\ all_hits = <<>>
    /\ requested = <<>>
    /\ sresult = "none"
    /\ acquired = [b \in Buckets |-> 0]
    /\ request = [c \in Calls |-> NoRequest]
    /\ script = <<>>
    /\ handles = [h \in Handles |-> NoHandle]
    /\ via = [c \in Calls |-> 0]
    /\ recent = <<>>
    /\ fopts = None
    /\ fresult = None

NextConfig ==
    \/ \E b \in Buckets, cfg \in Configs, buildOk \in BOOLEAN : WithConfig(b, cfg, buildOk)
    \/ \E b \in Buckets, ua \in UserAgents, buildOk \in BOOLEAN : New(b, ua, buildOk)

SpecConfig == InitConfig /\ [][NextConfig]_vars

(* search_all on its own: the service reports a multiple of PAGE_SIZE hits *)
(* below MaxPages pages, or one more,                                      *)
(* and any page request may fail.                                          *)

NextSearch ==
    \/ SearchAll
    \/ FirstFails
    \/ \E k \in 0..(MaxPages - 1), d \in {0, 1} : FirstReply(k * PAGE_SIZE + d)
    \/ \E i \in 1..BATCH_SIZE, ok \in BOOLEAN : PageReply(i, ok)
    \/ JoinAll

SpecSearch == Init /\ [][NextSearch]_vars

---------------------------------------------------------------------------
(* Properties *)

Done(c) == pc[c] = "done"

(* Every attempt of the call so far was answered 429. *)
AllLimited(c) == log[c].limited >= 1 /\ log[c].failed = 0 /\ log[c].other = 0

(* Every attempt of the call so far failed in send(). *)
AllFailed(c) == log[c].failed >= 1 /\ log[c].limited = 0 /\ log[c].other = 0

Retried(c) == log[c].failed + log[c].limited

(* C1: a call (get or get_bytes) whose every attempt is answered 429 ends  *)
(* with RateLimitExceeded after exactly MAX_RETRIES + 1 = 6 attempts: it   *)
(* never makes a 7th, and it does not return before the 6th.               *)
C1_RetryCap ==
    \A c \in Calls :
        AllLimited(c) =>
            /\ attempts[c] <= MAX_RETRIES + 1
            /\ Done(c) <=> log[c].limited = MAX_RETRIES + 1
            /\ Done(c) => result[c] = RateLimitExceeded /\ attempts[c] = MAX_RETRIES + 1

C1_Witness ==
    \E c \in Calls :
        /\ Done(c) /\ AllLimited(c) /\ op[c] = "get_bytes"
        /\ result[c] = RateLimitExceeded /\ attempts[c] = 6

(* C2: whatever the attempts of a get call return, it makes at most 6      *)
(* attempts, its retry counter never exceeds MAX_RETRIES, and the counter  *)
(* counts transport failures and 429s together.                            *)
C2_SharedBudget ==
    \A c \in Calls :
        op[c] = "get" =>
            /\ attempts[c] <= MAX_RETRIES + 1
            /\ retries[c] <= MAX_RETRIES
            /\ pc[c] \in {"waiting", "inflight"} => retries[c] = Retried(c)
            /\ pc[c] = "sleeping" => retries[c] + 1 = Retried(c)

C2_Witness ==
    \E c \in Calls :
        /\ op[c] = "get" /\ Done(c) /\ attempts[c] = 6
        /\ log[c].failed = 3 /\ log[c].limited = 3

(* C3: in get a transport failure met with retries < 5 puts the call to    *)
(* sleep for backoff(retries) and is followed by another attempt with      *)
(* retries one higher; RequestError for a send() failure is returned only  *)
(* with retries = 5, so a call whose every attempt fails in send() returns *)
(* RequestError after exactly 6 attempts.                                  *)
C3_TransportRetry ==
    \A c \in Calls :
        op[c] = "get" =>
            /\ (pc[c] = "sleeping" /\ ~last[c].sent) =>
                    /\ retries[c] < MAX_RETRIES
                    /\ \E k \in JitterDraws :
                         sleepFor[c] = calculate_backoff(retries[c], k)
            /\ (Done(c) /\ ~last[c].sent) =>
                    /\ result[c] = RequestError("send")
                    /\ retries[c] = MAX_RETRIES
            /\ AllFailed(c) =>
                    /\ attempts[c] <= MAX_RETRIES + 1
                    /\ attempts[c] = retries[c] + 1 \/ pc[c] = "waiting"
                    /\ Done(c) <=> log[c].failed = MAX_RETRIES + 1

C3_Witness ==
    \E c \in Calls :
        /\ op[c] = "get" /\ Done(c) /\ AllFailed(c)
        /\ attempts[c] = 6 /\ result[c].kind = "RequestError"

(* C4: get_bytes returns RequestError for a failed send() only once the    *)
(* retry budget is spent, that is on its 6th attempt.                      *)
C4_GetBytesRetriesTransport ==
    \A c \in Calls :
        (op[c] = "get_bytes" /\ Done(c) /\ ~last[c].sent) =>
            /\ result[c].kind = "RequestError"
            /\ attempts[c] = MAX_RETRIES + 1

(* C5: get never returns RequestError from a call that has made fewer than *)
(* 6 attempts, whether send() failed or the read of the body did.          *)
C5_RequestErrorIsRetried ==
    \A c \in Calls :
        (op[c] = "get" /\ Done(c) /\ result[c].kind = "RequestError") =>
            attempts[c] = MAX_RETRIES + 1

(* C6: an attempt answered 404 ends the call (get or get_bytes) with       *)
(* NotFound: no sleep follows it and no further attempt is made, so a 404  *)
(* on the first attempt means exactly one attempt.                         *)
C6_NoRetryOn404 ==
    \A c \in Calls :
        (last[c].sent /\ last[c].status = 404) =>
            /\ Done(c)
            /\ result[c] = NotFound
            /\ sleepFor[c] = 0
            /\ sleeps[c] = Retried(c)
            /\ attempts[c] = Retried(c) + 1

C6_Witness ==
    \E c \in Calls :
        /\ Done(c) /\ last[c].status = 404 /\ result[c] = NotFound
        /\ attempts[c] = 1 /\ sleeps[c] = 0

(* C7: in get a status that is neither 2xx, 404 nor 429 ends the call with *)
(* InvalidResponse, with no sleep and no further attempt; the error holds  *)
(* the status, the URL and the first min(200, length) characters of the    *)
(* body that was read.                                                     *)
C7_OtherStatusIsTerminal ==
    \A c \in Calls :
        ( /\ op[c] = "get" /\ last[c].sent
          /\ ~(200 <= last[c].status /\ last[c].status <= 299)
          /\ last[c].status \notin {404, 429} ) =>
            /\ Done(c)
            /\ result[c].kind = "InvalidResponse"
            /\ result[c].status = last[c].status
            /\ result[c].url = url[c]
            /\ Len(result[c].preview) <= 200
            /\ last[c].bodyOk =>
                  /\ Len(result[c].preview) = Min(200, Len(last[c].body))
                  /\ \A i \in 1..Len(result[c].preview) :
                        result[c].preview[i] = last[c].body[i]
            /\ sleepFor[c] = 0
            /\ sleeps[c] = Retried(c)
            /\ attempts[c] = Retried(c) + 1

C7_Witness ==
    \E c \in Calls :
        /\ op[c] = "get" /\ Done(c) /\ last[c].status = 500
        /\ last[c].body = LongHtml /\ Len(last[c].body) > 200
        /\ result[c].kind = "InvalidResponse" /\ Len(result[c].preview) = 200

(* C8: an attempt answered with any status in 200..299 whose body can be   *)
(* read, and which for get does not enter the .json content-type check,    *)
(* ends the call with Ok of the whole body.                                *)
C8_Every2xxIsOk ==
    \A c \in Calls :
        ( /\ Done(c) /\ last[c].sent /\ last[c].bodyOk
          /\ 200 <= last[c].status /\ last[c].status <= 299
          /\ ~(op[c] = "get" /\ ContentTypeCheckApplies(url[c], last[c])) ) =>
            result[c] = Ok(last[c].body)

(* C9: no window of 1 second (RateLimit ticks) holds more than RateLimit   *)
(* dispatched attempts of the calls of one client.                         *)
C9_QuotaPerWindow ==
    \A b \in Buckets : SeqSum(window[b]) <= RateLimit

(* C10: for a get of a URL ending in ".json", a response with a success    *)
(* status and a Content-Type containing text/html, whose body begins,      *)
(* after leading whitespace, with "{" or "[", ends the call with Ok of     *)
(* exactly that body.                                                      *)
FirstVisible(b) ==
    LET idx == { i \in 1..Len(b) : b[i] \notin {" ", "\n", "\t", "\r"} }
    IN  IF idx = {} THEN ""
        ELSE b[CHOOSE i \in idx : \A j \in idx : i <= j]

SaysHtml(r) ==
    /\ r.ctype # None
    /\ r.ctype[1] \in {TextHtml, HtmlCharset}

C10_MislabelledJsonAccepted ==
    \A c \in Calls :
        ( /\ op[c] = "get" /\ url[c] = JsonUrl /\ last[c].sent
          /\ 200 <= last[c].status /\ last[c].status <= 299
          /\ SaysHtml(last[c]) /\ last[c].bodyOk
          /\ FirstVisible(last[c].body) \in {"{", "["} ) =>
            Done(c) /\ result[c] = Ok(last[c].body)

C10_Witness ==
    \E c \in Calls :
        /\ op[c] = "get" /\ url[c] = JsonUrl /\ Done(c)
        /\ last[c].status = 200 /\ last[c].ctype = Some(HtmlCharset)
        /\ last[c].body = PaddedJson /\ result[c] = Ok(PaddedJson)

(* C11: for a get of a URL ending in ".json", a response with a success    *)
(* status and a Content-Type containing text/html, whose body does not     *)
(* begin, after leading whitespace, with "{" or "[", ends the call with    *)
(* UnexpectedContentType holding the first min(200, length) characters of  *)
(* the body; no sleep and no further attempt follows.                      *)
C11_HtmlRejected ==
    \A c \in Calls :
        ( /\ op[c] = "get" /\ url[c] = JsonUrl /\ last[c].sent
          /\ 200 <= last[c].status /\ last[c].status <= 299
          /\ SaysHtml(last[c]) /\ last[c].bodyOk
          /\ FirstVisible(last[c].body) \notin {"{", "["} ) =>
            /\ Done(c)
            /\ result[c].kind = "UnexpectedContentType"
            /\ Len(result[c].preview) = Min(200, Len(last[c].body))
            /\ \A i \in 1..Len(result[c].preview) :
                  result[c].preview[i] = last[c].body[i]
            /\ sleepFor[c] = 0
            /\ sleeps[c] = Retried(c)
            /\ attempts[c] = Retried(c) + 1

C11_Witness ==
    \E c \in Calls :
        /\ op[c] = "get" /\ url[c] = JsonUrl /\ Done(c)
        /\ last[c].status = 200 /\ last[c].ctype = Some(TextHtml)
        /\ last[c].body = LongHtml /\ Len(last[c].body) > 200
        /\ result[c].kind = "UnexpectedContentType"
        /\ Len(result[c].preview) = 200

(* C12: a get of a URL ending in ".json" never returns Ok of a body whose  *)
(* first character after leading whitespace is neither "{" nor "[",        *)
(* whatever the Content-Type header.                                       *)
C12_NoHtmlAsOk ==
    \A c \in Calls :
        (op[c] = "get" /\ url[c] = JsonUrl /\ Done(c) /\ result[c].kind = "Ok") =>
            FirstVisible(result[c].body) \in {"{", "["}

(* C12 as amended: a get of a URL ending in ".json" never returns Ok of a  *)
(* body whose first character after leading whitespace is neither "{" nor  *)
(* "[" when the response's Content-Type contains text/html.                *)
C12_NoHtmlAsOkUnderHtmlHeader ==
    \A c \in Calls :
        ( /\ op[c] = "get" /\ url[c] = JsonUrl /\ Done(c)
          /\ last[c].sent /\ SaysHtml(last[c]) /\ result[c].kind = "Ok" ) =>
            FirstVisible(result[c].body) \in {"{", "["}

C12_Witness ==
    \E c \in Calls :
        /\ op[c] = "get" /\ url[c] = JsonUrl /\ Done(c)
        /\ last[c].status = 200 /\ last[c].ctype = Some(HtmlCharset)
        /\ last[c].body = HtmlBody /\ last[c].bodyOk
        /\ result[c].kind = "UnexpectedContentType"

(* C13: get_bytes never returns UnexpectedContentType, and a get of a URL  *)
(* that does not end in the literal ".json" returns Ok of the body for a   *)
(* 200 response, text/html with an HTML body included.                     *)
C13_CheckOnlyForJsonUrls ==
    \A c \in Calls :
        /\ op[c] = "get_bytes" => result[c].kind # "UnexpectedContentType"
        /\ ( /\ op[c] = "get" /\ url[c] \in {TextUrl, UpperUrl}
             /\ last[c].sent /\ last[c].status = 200 /\ last[c].bodyOk ) =>
                Done(c) /\ result[c] = Ok(last[c].body)

C13_Witness ==
    \E c \in Calls :
        /\ op[c] = "get" /\ url[c] = TextUrl /\ Done(c)
        /\ last[c].status = 200 /\ last[c].ctype = Some(TextHtml)
        /\ last[c].body = HtmlBody /\ result[c] = Ok(HtmlBody)

(* C14: in get, the sleep that follows a 429 met with retries < 5 lasts    *)
(* the Retry-After value in seconds when the header is present and parses  *)
(* as an unsigned integer, and backoff(retries) otherwise; retries is one  *)
(* higher at the next attempt.                                             *)
HintSeconds(r) ==
    IF r.retryAfter = None THEN None
    ELSE IF HeaderToStr(r.retryAfter[1]) = None THEN None
    ELSE ParseU64(HeaderToStr(r.retryAfter[1])[1])

C14_RetryAfterHonoured ==
    \A c \in Calls :
        op[c] = "get" =>
            /\ (pc[c] = "sleeping" /\ last[c].sent /\ last[c].status = 429) =>
                    /\ retries[c] < MAX_RETRIES
                    /\ retries[c] + 1 = Retried(c)
                    /\ IF HintSeconds(last[c]) # None
                       THEN sleepFor[c] = 1000 * HintSeconds(last[c])[1]
                       ELSE \E k \in JitterDraws :
                               sleepFor[c] = calculate_backoff(retries[c], k)
            /\ ( /\ pc[c] \in {"waiting", "inflight"}
                 /\ last[c].sent /\ last[c].status = 429 ) =>
                    retries[c] = Retried(c)

C14_Witness ==
    \E c \in Calls :
        /\ op[c] = "get" /\ pc[c] = "sleeping" /\ last[c].status = 429
        /\ last[c].retryAfter = Some(<<"2">>) /\ sleepFor[c] = 2000
        /\ retries[c] = 1

(* C15: when k 429s without Retry-After (1 <= k <= 5) are followed by a    *)
(* 200 with body B, get returns Ok(B) after exactly k + 1 attempts and k   *)
(* sleeps, the i-th sleep lasting backoff(i - 1).                          *)
C15_Recovery ==
    \A c \in Calls :
        /\ pc[c] = "sleeping" =>
              /\ sleeps[c] = log[c].limited
              /\ \E k \in JitterDraws :
                    sleepFor[c] = calculate_backoff(sleeps[c] - 1, k)
        /\ (Done(c) /\ last[c].status = 200) =>
              /\ result[c] = Ok(last[c].body)
              /\ attempts[c] = log[c].limited + 1
              /\ sleeps[c] = log[c].limited

C15_Witness ==
    \E c \in Calls :
        /\ Done(c) /\ log[c].limited = 3 /\ last[c].status = 200
        /\ attempts[c] = 4 /\ sleeps[c] = 3 /\ result[c] = Ok(JsonBody)

(* C16: for every retry index 0..4 and every jitter draw the backoff lies  *)
(* within [0.8 * 1000 * 2^r, 1.2 * 1000 * 2^r] ms, and the signed sum that *)
(* is cast to u64 is not negative, so the cast does not wrap.              *)
C16_BackoffRange ==
    \A i \in 1..Len(samples) :
        samples[i].retry \in 0..4 =>
            /\ samples[i].ms >= 0
            /\ 8 * 1000 * (2 ^ samples[i].retry) <= 10 * samples[i].ms
            /\ 10 * samples[i].ms <= 12 * 1000 * (2 ^ samples[i].retry)

C16_Witness ==
    /\ Len(samples) = 2
    /\ samples[1].retry = 0 /\ samples[1].k = 0 /\ samples[1].ms = 900
    /\ samples[2].retry = 4 /\ samples[2].k = 0 /\ samples[2].ms = 14400

(* C17: of two backoffs computed from independent jitter draws, the one    *)
(* for the smaller retry index (indices 0..5) is strictly the shorter.     *)
C17_BackoffMonotone ==
    \A i \in 1..Len(samples), j \in 1..Len(samples) :
        samples[i].retry < samples[j].retry => samples[i].ms < samples[j].ms

C17_Witness ==
    \E i \in 1..Len(samples), j \in 1..Len(samples) :
        /\ samples[i].retry = 4 /\ samples[i].k = JitterSteps - 1
        /\ samples[j].retry = 5 /\ samples[j].k = 0
        /\ samples[i].ms < samples[j].ms

(* C18: a constructor given a requests-per-second quota of zero returns    *)
(* ConfigError and no client, and every client that was constructed has a  *)
(* quota greater than zero.                                                *)
C18_ZeroQuotaRejected ==
    \A b \in Buckets :
        /\ (client[b].kind # "none" /\ config[b].rate_limit = 0) =>
               client[b].kind = "ConfigError"
        /\ client[b].kind = "Edgar" =>
               (client[b].quota > 0 /\ tokens[b] = client[b].quota)

C18_Witness ==
    \E b \in Buckets, d \in Buckets :
        /\ config[b].rate_limit = 0 /\ config[b].user_agent = ValidAgent
        /\ client[b] = ConfigError("Rate limit must be greater than zero")
        /\ client[d].kind = "Edgar" /\ client[d].quota = RateLimit

(* C19: a constructor given an empty user agent returns ConfigError and no *)
(* client.                                                                 *)
C19_EmptyAgentRejected ==
    \A b \in Buckets :
        (client[b].kind # "none" /\ config[b].user_agent = <<>>) =>
            client[b].kind = "ConfigError"

(* The page requests that have been sent and not yet answered *)
InFlight ==
    (IF spc = "first" THEN 1 ELSE 0)
    + Cardinality({ i \in 1..Len(batch) : batch[i].state = "pending" })

(* The initial search has answered, so total_hits is the reported total *)
TotalKnown == current_page >= 1

CeilPages == (total_hits + 99) \div 100

(* The hits of pages 1..n of a result of total_hits hits, in page order *)
PagesInOrder(n) ==
    [p \in 1..n |-> [page |-> p,
                     n |-> IF p * 100 <= total_hits THEN 100
                           ELSE total_hits - (p - 1) * 100]]

Requested == IF IsSome(fopts) /\ IsSome(Unwrap(fopts).form_types)
             THEN { Unwrap(Unwrap(fopts).form_types)[i] :
                      i \in 1..Len(Unwrap(Unwrap(fopts).form_types)) }
             ELSE {}

Allowed == Requested \cup
           (IF IsSome(fopts) /\ Unwrap(fopts).include_amendments
            THEN { ft \o <<"/", "A">> : ft \in Requested } ELSE {})

HasFormFilter == IsSome(fopts) /\ IsSome(Unwrap(fopts).form_types)
OffsetGiven == IF IsSome(fopts) /\ IsSome(Unwrap(fopts).offset)
               THEN Unwrap(Unwrap(fopts).offset) ELSE 0
LimitGiven == IF IsSome(fopts) /\ IsSome(Unwrap(fopts).limit)
              THEN Unwrap(Unwrap(fopts).limit) ELSE Len(recent)

(* The slice [OffsetGiven, OffsetGiven + LimitGiven) of a list *)
SliceOf(list) ==
    SubSeq(list, OffsetGiven + 1, Min(Len(list), OffsetGiven + LimitGiven))

YearArg(c) == Unwrap(request[c].year)
PeriodArg(c) == Unwrap(request[c].period)

(* Call c returned the argument error kind without touching the transport  *)
(* or the limiter of its client.                                           *)
RejectedUnsent(c, kind) ==
    /\ Done(c) /\ result[c].kind = kind
    /\ attempts[c] = 0 /\ last[c] = NoResponse
    /\ acquired[1] = 0 /\ tokens[1] = RateLimit

(* C22: historical_xbrl_feed with year < 2005 returns InvalidXBRLYear and, *)
(* for year >= 2005 with month outside 1..12, InvalidMonth; fetch_index    *)
(* with year < 1994 returns InvalidYear and otherwise with quarter outside *)
(* 1..4 InvalidQuarter; in these cases no attempt is made and no cell of   *)
(* the limiter is taken.                                                   *)
C22_ValidationBeforeTransport ==
    \A c \in Calls :
        /\ request[c].fn = "historical_xbrl_feed" =>
              /\ YearArg(c) < 2005 => RejectedUnsent(c, "InvalidXBRLYear")
              /\ (YearArg(c) >= 2005 /\ PeriodArg(c) \notin 1..12) =>
                    RejectedUnsent(c, "InvalidMonth")
        /\ request[c].fn = "fetch_index" =>
              /\ (IsSome(request[c].year) /\ YearArg(c) < 1994) =>
                    RejectedUnsent(c, "InvalidYear")
              /\ ( /\ ~(IsSome(request[c].year) /\ YearArg(c) < 1994)
                   /\ IsSome(request[c].period) /\ PeriodArg(c) \notin 1..4 ) =>
                    RejectedUnsent(c, "InvalidQuarter")

C22_Witness ==
    \E c \in Calls :
        /\ request[c] = ApiRequest("historical_xbrl_feed", Some(2004), Some(13))
        /\ RejectedUnsent(c, "InvalidXBRLYear")

(* The attempts of call c that have completed, and those of the calls on   *)
(* bucket b that have been dispatched                                      *)
Completed(c) == log[c].failed + log[c].limited + log[c].other

RECURSIVE Dispatched(_, _)
Dispatched(b, cs) ==
    IF cs = {} THEN 0
    ELSE LET c == CHOOSE x \in cs : TRUE
         IN  (IF limiter[c] = b THEN attempts[c] ELSE 0) + Dispatched(b, cs \ {c})

(* C23: the attempts dispatched through a client never outnumber the cells *)
(* acquired from its bucket, and a call waiting for a cell has no attempt  *)
(* dispatched that has not completed.                                      *)
C23_AcquireBeforeAttempt ==
    /\ \A b \in Buckets : Dispatched(b, Calls) <= acquired[b]
    /\ \A c \in Calls : pc[c] = "waiting" => attempts[c] = Completed(c)

C23_Witness ==
    /\ pc[1] = "waiting" /\ attempts[1] = 2 /\ Completed(1) = 2
    /\ pc[2] = "inflight" /\ attempts[2] = 1
    /\ acquired[1] = 3

(* C24: a call has at most one attempt in flight; an attempt starts only   *)
(* from the top of the loop, when every earlier attempt has completed and  *)
(* every sleep begun has ended, and a sleep ends only after its duration   *)
(* (counted in ticks of 1000 / RateLimit ms, up to one second).            *)
C24_SequentialAttempts ==
    [][ \A c \in Calls :
          /\ attempts'[c] - Completed(c)' \in {0, 1}
          /\ (pc'[c] = "inflight") <=> (attempts'[c] = Completed(c)' + 1)
          /\ attempts'[c] # attempts[c] =>
                /\ attempts'[c] = attempts[c] + 1
                /\ pc[c] = "waiting"
                /\ attempts[c] = Completed(c)
                /\ retries[c] = sleeps[c]
          /\ (pc[c] = "sleeping" /\ pc'[c] # "sleeping") =>
                \/ napped[c] * (1000 \div RateLimit) >= sleepFor[c] - (1000 \div RateLimit) + 1
                \/ napped[c] >= RateLimit ]_vars

C24_Witness ==
    \E c \in Calls :
        /\ pc[c] = "inflight" /\ attempts[c] = 3 /\ Completed(c) = 2
        /\ sleeps[c] = 2 /\ retries[c] = 2

(* C25: the retry counter of a call starts at 0 and counts the sleeps of   *)
(* that call alone, whatever the other calls on the client do, so a call   *)
(* gives up with RateLimitExceeded only after 6 attempts of its own.       *)
C25_PrivateRetryCounter ==
    \A c \in Calls :
        /\ pc[c] = "idle" => retries[c] = 0
        /\ retries[c] = IF pc[c] = "sleeping" THEN sleeps[c] - 1 ELSE sleeps[c]
        /\ sleeps[c] <= Retried(c)
        /\ (Done(c) /\ result[c] = RateLimitExceeded) =>
              (attempts[c] = 6 /\ retries[c] = 5)

C25_Witness ==
    /\ Done(1) /\ result[1] = RateLimitExceeded /\ retries[1] = 5
    /\ pc[2] = "sleeping" /\ retries[2] = 1 /\ sleeps[2] = 2
    /\ retries[3] = 0 /\ Done(3)

C27_GetAndGetBytesAgree ==
    ( /\ Done(1) /\ op[1] = "get"
      /\ Done(2) /\ op[2] = "get_bytes"
      /\ url[1] = url[2] /\ ~EndsWith(url[1], <<".", "j", "s", "o", "n">>) ) =>
        /\ attempts[1] = attempts[2]
        /\ sleeps[1] = sleeps[2]
        /\ result[1].kind = result[2].kind
        /\ result[1].kind \in {"Ok", "NotFound", "RateLimitExceeded", "InvalidResponse"}

C27_Witness ==
    /\ Done(1) /\ op[1] = "get" /\ Done(2) /\ op[2] = "get_bytes"
    /\ attempts[1] = 4 /\ attempts[2] = 4 /\ sleeps[1] = 3 /\ sleeps[2] = 3
    /\ result[1].kind = "InvalidResponse" /\ result[2].kind = "InvalidResponse"
    /\ script[4].status = 500

TypedResults == {"Ok", "RequestError", "NotFound", "RateLimitExceeded",
                 "UnexpectedContentType", "InvalidResponse"}

(* C28: when cells are eventually granted and attempts and sleeps          *)
(* eventually complete, a call that was made eventually returns, with Ok   *)
(* or one of the typed errors, and what it returned never changes.         *)
C28_Termination ==
    /\ \A c \in Calls :
          (pc[c] # "idle") ~> (Done(c) /\ result[c].kind \in TypedResults)
    /\ [][ \A c \in Calls : Done(c) => (Done(c)' /\ result'[c] = result[c]) ]_vars

C28_Witness ==
    \E c \in Calls :
        /\ Done(c) /\ op[c] = "get" /\ attempts[c] = 6
        /\ log[c].failed = 2 /\ log[c].limited = 3 /\ log[c].other = 1
        /\ result[c].kind = "UnexpectedContentType"

(* The handle a handle was first cloned from *)
Origin(h) == IF handles[h].from = 0 THEN h ELSE handles[h].from

(* C29: a clone draws on the bucket of the client it was cloned from, and  *)
(* clients built by separate with_config calls have buckets of their own:  *)
(* an attempt made on a handle takes one cell of the bucket of that        *)
(* handle's origin and leaves every other bucket as it was.                *)
C29_ClonesShareBucket ==
    /\ [] /\ \A h \in Handles :
               handles[h].bucket # 0 => handles[h].bucket = handles[Origin(h)].bucket
          /\ \A h \in Handles, g \in Handles :
               ( /\ h # g /\ handles[h].bucket # 0 /\ handles[g].bucket # 0
                 /\ Origin(h) # Origin(g) ) => handles[h].bucket # handles[g].bucket
          /\ \A c \in Calls :
               pc[c] # "idle" => limiter[c] = handles[Origin(via[c])].bucket
          /\ \A b \in Buckets : acquired[b] = Dispatched(b, Calls)
    /\ [][ \A c \in Calls :
              attempts'[c] # attempts[c] =>
                \A b \in Buckets :
                  tokens'[b] = IF b = handles[Origin(via[c])].bucket
                               THEN tokens[b] - 1 ELSE tokens[b] ]_vars

C29_Witness ==
    /\ handles[3] = [bucket |-> 1, from |-> 1]
    /\ via[1] = 1 /\ via[2] = 3 /\ via[3] = 2
    /\ attempts[1] = 1 /\ attempts[2] = 1 /\ attempts[3] = 1
    /\ tokens[1] = 0 /\ tokens[2] = 1
    /\ acquired[1] = 2 /\ acquired[2] = 1

(* C30: get returns RateLimitExceeded exactly when an attempt made with    *)
(* the retry counter at 5 (the 6th attempt) is answered 429, whatever mix  *)
(* of 429s and transport failures the five retried attempts met, and it    *)
(* does not sleep after that attempt.                                      *)
C30_RateLimitExceededIff ==
    \A c \in Calls :
        (op[c] = "get" /\ Done(c)) =>
            /\ result[c] = RateLimitExceeded <=>
                  (last[c].sent /\ last[c].status = 429 /\ retries[c] = 5)
            /\ result[c] = RateLimitExceeded =>
                  /\ attempts[c] = 6 /\ sleeps[c] = 5 /\ sleepFor[c] = 0
                  /\ log[c].failed + log[c].limited = 6 /\ log[c].other = 0

C30_Witness ==
    \E c \in Calls :
        /\ op[c] = "get" /\ Done(c) /\ result[c] = RateLimitExceeded
        /\ log[c].failed = 5 /\ log[c].limited = 1 /\ attempts[c] = 6

====
